---- MODULE Spec2Model ----
(***************************************************************************)
(* State-machine model of the job orchestration engine (JobManager in      *)
(* src/src/job_manager.py, wired up by create_app in src/src/app.py).      *)
(*                                                                         *)
(* Every worker (a scheduler pool thread or an HTTP request thread) is a   *)
(* thread with a program counter pc[t] and locals loc[t].  One action is   *)
(* one atomic step of a handler: a step ends at every access to state that *)
(* another thread can see (the lock registry, a lock, the store, the       *)
(* scheduler's registrations, the file system, the pending set).           *)
(***************************************************************************)
EXTENDS Integers, Sequences, FiniteSets, TLC

\* ------------------------------------------------------------------ bounds
MaxRuns == 2      \* Run rows inserted over the life of the store
MaxClock == 2     \* readings of the wall clock

\* ------------------------------------------------------------- universes
Threads == {"t1", "t2"}
MainThread == "t1"

\* A name is a sequence of characters; task identifiers are sanitized names.
TaskA == <<"a">>
TaskB == <<"b">>
Tasks == {TaskA, TaskB}
NoTask == <<>>

NULL == <<>>
Some(v) == <<v>>

\* ------------------------------------------------------ finite-map helpers
Put(f, k, v) == [x \in (DOMAIN f) \cup {k} |-> IF x = k THEN v ELSE f[x]]
Del(f, k) == [x \in (DOMAIN f) \ {k} |-> f[x]]
Restrict(f, S) == [x \in (DOMAIN f) \cap S |-> f[x]]
EmptyMap == [x \in {} |-> NULL]

VARIABLES
    pc,               \* pc[t]: position of thread t in its handler
    loc,              \* loc[t]: the handler's local variables
    job_locks,        \* self._job_locks: task |-> lock object (named by its creator)
    locked,           \* lock objects <<task, creator>> that are currently held
    db_lock,          \* self._db_lock: the thread holding it, or "free"
    jobs,             \* table jobs: id |-> row
    runs,             \* table runs: set of rows
    last_run_id,      \* AUTOINCREMENT counter of table runs
    sched,            \* scheduler registrations: id |-> sequence of triggers
    live,             \* jobs_dir/<task>: task |-> directory (file |-> file)
    staging,          \* jobs_dir/.staging/<task>
    pending_updates,  \* self.pending_updates
    logs,             \* logs_dir/<task>/<stamp>.log: path |-> the start time written in it
    now               \* the wall clock

vars == <<pc, loc, job_locks, locked, db_lock, jobs, runs, last_run_id,
          sched, live, staging, pending_updates, logs, now>>

\* ------------------------------------------------------------ file system
\* A file is its modification time and its content; a directory maps file
\* names to files.  shutil.copytree copies with copy2, which keeps the
\* modification time of the source file.
Manifest == "job.yaml"
MkFile(m, b) == [mtime |-> m, body |-> b]
EmptyDir == [x \in {} |-> MkFile(0, "")]

\* yaml.safe_load of a manifest body, and the fields register_job takes from
\* the document: kind "error" is a parse error, "nondict" a document that is
\* not a mapping (an empty file loads as None), "dict" a mapping.
\* params are the keys of the schedule mapping other than "type".
Parse(body) ==
    CASE body = "interval_seconds" ->
            [kind |-> "dict", stype |-> "interval", params |-> {"seconds"}, timeout |-> 1]
      [] body = "cron_hour" ->
            [kind |-> "dict", stype |-> "cron", params |-> {"hour"}, timeout |-> 1]
      [] body = "interval_hour" ->
            [kind |-> "dict", stype |-> "interval", params |-> {"hour"}, timeout |-> 1]
      [] body = "interval_days" ->
            [kind |-> "dict", stype |-> "interval", params |-> {"days"}, timeout |-> 1]
      [] body = "interval_days_minutes" ->
            [kind |-> "dict", stype |-> "interval", params |-> {"days", "minutes"}, timeout |-> 1]
      [] body = "interval_none" ->
            [kind |-> "dict", stype |-> "interval", params |-> {}, timeout |-> 1]
      [] body = "malformed" ->
            [kind |-> "error", stype |-> "", params |-> {}, timeout |-> 0]
      [] OTHER ->
            [kind |-> "nondict", stype |-> "", params |-> {}, timeout |-> 0]

\* ------------------------------------------------------------- scheduler
\* APScheduler's triggers reject keyword arguments they do not know:
\* add_job raises and registers nothing.
IntervalKeys == {"weeks", "days", "hours", "minutes", "seconds"}
CronKeys == {"year", "month", "day", "week", "day_of_week", "hour", "minute", "second"}

\* _schedule_job, the trigger it builds.
TriggerOf(stype, params) ==
    IF stype = "cron"
    THEN [kind |-> "cron", kwargs |-> params]
    ELSE [kind |-> "interval",
          kwargs |-> IF params \cap {"seconds", "minutes", "hours"} = {}
                     THEN params \cup {"hours"} ELSE params]

TriggerAccepted(trig) ==
    IF trig.kind = "cron" THEN trig.kwargs \subseteq CronKeys
    ELSE trig.kwargs \subseteq IntervalKeys

NoRegs == [j \in Tasks |-> <<>>]

\* scheduler.remove_job(id): the lookup error for an unknown id is swallowed
\* by the callers.
SchedRemove(s, j) == [s EXCEPT ![j] = <<>>]
\* scheduler.add_job(..., id=j, replace_existing=True)
SchedAdd(s, j, trig) == [s EXCEPT ![j] = <<trig>>]

\* ------------------------------------------------------------------ store
JobRow(task, doc, en, mt) ==
    [task |-> task, schedule_type |-> doc.stype, schedule_config |-> doc.params,
     timeout |-> doc.timeout, enabled |-> en, yaml_mtime |-> mt]

RunRow(id, j, st, t0, fin, dur, err, lp) ==
    [id |-> id, job_id |-> j, status |-> st, started_at |-> t0,
     finished_at |-> fin, duration_seconds |-> dur, error_message |-> err,
     log_path |-> lp]

\* The clock counts ticks; a second has this many.
TicksPerSecond == 2

\* _run_job, `log_dir / (now.strftime("%Y%m%d_%H%M%S") + ".log")` relative to
\* the logs root: the task's directory (the task of a job is its identifier)
\* and the start time cut to the second.
LogPath(task, t0) == <<task, t0 \div TicksPerSecond>>

RestartMessage == "System restarted while running"

\* A recovery that reclassifies the row without stamping its finish time.
CleanupRowNoFinish(r, t) ==
    IF r.status = "running"
    THEN [r EXCEPT !.status = "failed", !.error_message = Some(RestartMessage)]
    ELSE r

\* _cleanup_stale_runs: the UPDATE applied to one row.
CleanupRow(r, t) ==
    IF r.status = "running"
    THEN [r EXCEPT !.status = "failed",
                   !.error_message = Some(RestartMessage),
                   !.finished_at = Some(t)]
    ELSE r

_cleanup_stale_runs(rs, t) == {CleanupRow(r, t) : r \in rs}

\* ----------------------------------------------------------------- locals
NoLoc == [job |-> NoTask, lock |-> "none", run |-> 0, t0 |-> 0, status |-> "",
          timeout |-> 0, todo |-> {}, found |-> {}, dels |-> {}, mtime |-> 0,
          doc |-> "", enabled |-> FALSE, files |-> <<>>, config |-> "",
          via |-> "", cutoff |-> 0, path |-> [abs |-> FALSE, parts |-> <<>>],
          ret |-> NULL, row |-> NULL]

Goto(t, label) == pc' = [pc EXCEPT ![t] = label]
Return(t) == /\ pc' = [pc EXCEPT ![t] = "idle"]
             /\ loc' = [loc EXCEPT ![t] = NoLoc]
SetLoc(t, l) == loc' = [loc EXCEPT ![t] = l]

\* ============================================================ execute_job
\* Threads that have entered execute_job and not yet inserted their Run row.
ExecPreInsert == {"ex_getlock", "ex_lockset", "ex_lockret", "ex_acquire",
                  "ex_load", "ex_stamp", "ex_insert"}
RunsInFlight == Cardinality({u \in Threads : pc[u] \in ExecPreInsert})

\* api_run starts a thread on execute_job(job_id); the scheduler's pool does
\* the same for a registered trigger.
ExecBegin(t, j) ==
    /\ pc[t] = "idle"
    /\ last_run_id + RunsInFlight < MaxRuns
    /\ Goto(t, "ex_getlock")
    /\ SetLoc(t, [NoLoc EXCEPT !.job = j])
    /\ UNCHANGED <<job_locks, locked, db_lock, jobs, runs, last_run_id, sched,
                   live, staging, pending_updates, logs, now>>

\* _get_job_lock, `if job_id not in self._job_locks`
GetLockCheck(t) ==
    /\ pc[t] = "ex_getlock"
    /\ Goto(t, IF loc[t].job \in DOMAIN job_locks THEN "ex_lockret" ELSE "ex_lockset")
    /\ UNCHANGED <<loc, job_locks, locked, db_lock, jobs, runs, last_run_id,
                   sched, live, staging, pending_updates, logs, now>>

\* _get_job_lock, `self._job_locks[job_id] = threading.Lock()`: a new lock
\* object, named by the thread that made it.
GetLockSet(t) ==
    /\ pc[t] = "ex_lockset"
    /\ job_locks' = Put(job_locks, loc[t].job, t)
    /\ Goto(t, "ex_lockret")
    /\ UNCHANGED <<loc, locked, db_lock, jobs, runs, last_run_id, sched, live,
                   staging, pending_updates, logs, now>>

\* _get_job_lock, `return self._job_locks[job_id]`
GetLockRet(t) ==
    /\ pc[t] = "ex_lockret"
    /\ SetLoc(t, [loc[t] EXCEPT !.lock = job_locks[loc[t].job]])
    /\ Goto(t, "ex_acquire")
    /\ UNCHANGED <<job_locks, locked, db_lock, jobs, runs, last_run_id, sched,
                   live, staging, pending_updates, logs, now>>

\* execute_job, `if not lock.acquire(blocking=False): return`
Acquire(t) ==
    /\ pc[t] = "ex_acquire"
    /\ IF <<loc[t].job, loc[t].lock>> \in locked
       THEN /\ Return(t)
            /\ UNCHANGED locked
       ELSE /\ locked' = locked \cup {<<loc[t].job, loc[t].lock>>}
            /\ Goto(t, "ex_load")
            /\ UNCHANGED loc
    /\ UNCHANGED <<job_locks, db_lock, jobs, runs, last_run_id, sched, live,
                   staging, pending_updates, logs, now>>

\* A load that runs the job whatever its enabled flag says.
LoadJobIgnoreEnabled(t) ==
    /\ pc[t] = "ex_load"
    /\ db_lock = "free"
    /\ IF loc[t].job \in DOMAIN jobs
       THEN /\ Goto(t, "ex_stamp")
            /\ SetLoc(t, [loc[t] EXCEPT !.timeout = jobs[loc[t].job].timeout])
       ELSE /\ Goto(t, "ex_release")
            /\ UNCHANGED loc
    /\ UNCHANGED <<job_locks, locked, db_lock, jobs, runs, last_run_id, sched,
                   live, staging, pending_updates, logs, now>>

\* _run_job, the SELECT of the job row under the store lock, and the two
\* early returns.
LoadJob(t) ==
    /\ pc[t] = "ex_load"
    /\ db_lock = "free"
    /\ IF loc[t].job \in DOMAIN jobs /\ jobs[loc[t].job].enabled
       THEN /\ Goto(t, "ex_stamp")
            /\ SetLoc(t, [loc[t] EXCEPT !.timeout = jobs[loc[t].job].timeout])
       ELSE /\ Goto(t, "ex_release")
            /\ UNCHANGED loc
    /\ UNCHANGED <<job_locks, locked, db_lock, jobs, runs, last_run_id, sched,
                   live, staging, pending_updates, logs, now>>

\* _run_job, `now = datetime.now()`
Stamp(t) ==
    /\ pc[t] = "ex_stamp"
    /\ SetLoc(t, [loc[t] EXCEPT !.t0 = now])
    /\ Goto(t, "ex_insert")
    /\ UNCHANGED <<job_locks, locked, db_lock, jobs, runs, last_run_id, sched,
                   live, staging, pending_updates, logs, now>>

\* _run_job, the INSERT of the 'running' row.
InsertRun(t) ==
    /\ pc[t] = "ex_insert"
    /\ db_lock = "free"
    /\ last_run_id' = last_run_id + 1
    /\ runs' = runs \cup {RunRow(last_run_id + 1, loc[t].job, "running",
                                 loc[t].t0, NULL, NULL, NULL,
                                 LogPath(loc[t].job, loc[t].t0))}
    /\ SetLoc(t, [loc[t] EXCEPT !.run = last_run_id + 1])
    /\ Goto(t, "ex_subproc")
    /\ UNCHANGED <<job_locks, locked, db_lock, jobs, sched, live, staging,
                   pending_updates, logs, now>>

\* How an attempt ends: the subprocess exits with code 0 or another code,
\* it exceeds the timeout, or it cannot be launched at all.
Outcomes == {"exit0", "exit1", "timeout", "oserror"}

\* _run_job, the status and error message the try/except chooses.
OutcomeStatus(o) ==
    CASE o = "exit0" -> "success"
      [] o = "timeout" -> "timeout"
      [] OTHER -> "failed"

OutcomeError(o) ==
    CASE o = "exit0" -> NULL
      [] o = "exit1" -> Some("stderr")
      [] o = "timeout" -> Some("Timed out")
      [] OTHER -> Some("exception")

\* An execute_job without its try/finally: the exception of a failed log
\* write leaves the call with the lock still held.
CompleteNoFinally(t) ==
    /\ pc[t] = "ex_subproc"
    /\ \E o \in Outcomes, writable \in BOOLEAN :
          /\ o = "timeout" => now >= loc[t].t0 + loc[t].timeout
          /\ IF writable
             THEN /\ logs' = Put(logs, LogPath(loc[t].job, loc[t].t0), loc[t].t0)
                  /\ SetLoc(t, [loc[t] EXCEPT !.status = o])
                  /\ Goto(t, "ex_final")
             ELSE /\ Return(t)
                  /\ UNCHANGED logs
    /\ UNCHANGED <<job_locks, locked, db_lock, jobs, runs, last_run_id, sched,
                   live, staging, pending_updates, now>>

\* _run_job, subprocess.run and the writing of the log file.  When the log
\* file cannot be written, the open() in the try block raises into
\* `except Exception`, whose own open() raises again (in the timeout handler
\* the first open() already escapes): the exception leaves _run_job before
\* the final UPDATE, and execute_job's finally releases the lock.  The local
\* `status` was assigned before the failing open().
Complete(t) ==
    /\ pc[t] = "ex_subproc"
    /\ \E o \in Outcomes, writable \in BOOLEAN :
          /\ o = "timeout" => now >= loc[t].t0 + loc[t].timeout
          /\ IF writable
             THEN /\ logs' = Put(logs, LogPath(loc[t].job, loc[t].t0), loc[t].t0)
                  /\ SetLoc(t, [loc[t] EXCEPT !.status = o])
                  /\ Goto(t, "ex_final")
             ELSE /\ SetLoc(t, [loc[t] EXCEPT !.status =
                                    IF o = "timeout" THEN "timeout" ELSE "oserror"])
                  /\ Goto(t, "ex_release")
                  /\ UNCHANGED logs
    /\ UNCHANGED <<job_locks, locked, db_lock, jobs, runs, last_run_id, sched,
                   live, staging, pending_updates, now>>

\* _run_job, the final UPDATE applied to one row.
FinalizeRow(r, id, o, t0, fin) ==
    IF r.id = id
    THEN [r EXCEPT !.status = OutcomeStatus(o),
                   !.finished_at = Some(fin),
                   !.duration_seconds = Some(fin - t0),
                   !.error_message = OutcomeError(o)]
    ELSE r

\* _run_job, `finished_at = datetime.now()` and the UPDATE under the store lock.
Finalize(t) ==
    /\ pc[t] = "ex_final"
    /\ db_lock = "free"
    /\ runs' = {FinalizeRow(r, loc[t].run, loc[t].status, loc[t].t0, now) : r \in runs}
    /\ Goto(t, "ex_release")
    /\ UNCHANGED <<loc, job_locks, locked, db_lock, jobs, last_run_id, sched,
                   live, staging, pending_updates, logs, now>>

\* execute_job, `finally: lock.release()`
Release(t) ==
    /\ pc[t] = "ex_release"
    /\ locked' = locked \ {<<loc[t].job, loc[t].lock>>}
    /\ Return(t)
    /\ UNCHANGED <<job_locks, db_lock, jobs, runs, last_run_id, sched, live,
                   staging, pending_updates, logs, now>>

ExecStep(t) ==
    \/ GetLockCheck(t) \/ GetLockSet(t) \/ GetLockRet(t) \/ Acquire(t)
    \/ LoadJob(t) \/ Stamp(t) \/ InsertRun(t) \/ Complete(t) \/ Finalize(t)
    \/ Release(t)

\* The wall clock advances.
Tick ==
    /\ now < MaxClock
    /\ now' = now + 1
    /\ UNCHANGED <<pc, loc, job_locks, locked, db_lock, jobs, runs, last_run_id,
                   sched, live, staging, pending_updates, logs>>

\* ========================================================= unregister_job
\* unregister_job(job_id) called without a connection.
UnregBegin(t, j) ==
    /\ pc[t] = "idle"
    /\ Goto(t, "un_remove")
    /\ SetLoc(t, [NoLoc EXCEPT !.job = j])
    /\ UNCHANGED <<job_locks, locked, db_lock, jobs, runs, last_run_id, sched,
                   live, staging, pending_updates, logs, now>>

\* unregister_job, `self.scheduler.remove_job(job_id)`
UnregRemove(t) ==
    /\ pc[t] = "un_remove"
    /\ sched' = SchedRemove(sched, loc[t].job)
    /\ Goto(t, "un_open")
    /\ UNCHANGED <<loc, job_locks, locked, db_lock, jobs, runs, last_run_id,
                   live, staging, pending_updates, logs, now>>

\* unregister_job, `conn = self._get_conn()`: the connection is opened
\* without the store lock.
UnregOpen(t) ==
    /\ pc[t] = "un_open"
    /\ Goto(t, "un_delete")
    /\ UNCHANGED <<loc, job_locks, locked, db_lock, jobs, runs, last_run_id,
                   sched, live, staging, pending_updates, logs, now>>

\* unregister_job, the DELETE, the commit and the close.
UnregDelete(t) ==
    /\ pc[t] = "un_delete"
    /\ jobs' = Del(jobs, loc[t].job)
    /\ Return(t)
    /\ UNCHANGED <<job_locks, locked, db_lock, runs, last_run_id, sched, live,
                   staging, pending_updates, logs, now>>

UnregStep(t) == UnregRemove(t) \/ UnregOpen(t) \/ UnregDelete(t)

\* ============================================================== scan_jobs
\* sorted(self.jobs_dir.iterdir()): the directories are visited in name order.
TaskRank(j) == IF j = TaskA THEN 1 ELSE 2
NextDir(S) == CHOOSE d \in S : \A e \in S : TaskRank(d) <= TaskRank(e)

\* The periodic _system_scan job, api_reload, and the scan at startup.
ScanBegin(t) ==
    /\ pc[t] = "idle"
    /\ Goto(t, "sc_list")
    /\ UNCHANGED <<loc, job_locks, locked, db_lock, jobs, runs, last_run_id,
                   sched, live, staging, pending_updates, logs, now>>

\* scan_jobs, the listing of the jobs directory (.staging is skipped).
ScanList(t) ==
    /\ pc[t] = "sc_list"
    /\ SetLoc(t, [loc[t] EXCEPT !.todo = DOMAIN live, !.found = {}])
    /\ Goto(t, "sc_item")
    /\ UNCHANGED <<job_locks, locked, db_lock, jobs, runs, last_run_id, sched,
                   live, staging, pending_updates, logs, now>>

\* scan_jobs, one turn of the loop up to the manifest's stat().
ScanItem(t) ==
    /\ pc[t] = "sc_item"
    /\ IF loc[t].todo = {}
       THEN /\ Goto(t, "sc_stale")
            /\ UNCHANGED loc
       ELSE LET d == NextDir(loc[t].todo) IN
            IF d \in DOMAIN live /\ Manifest \in DOMAIN live[d]
            THEN /\ SetLoc(t, [loc[t] EXCEPT !.todo = @ \ {d},
                                              !.found = @ \cup {d},
                                              !.job = d,
                                              !.mtime = live[d][Manifest].mtime])
                 /\ Goto(t, "sc_needs")
            ELSE /\ SetLoc(t, [loc[t] EXCEPT !.todo = @ \ {d}])
                 /\ UNCHANGED pc
    /\ UNCHANGED <<job_locks, locked, db_lock, jobs, runs, last_run_id, sched,
                   live, staging, pending_updates, logs, now>>

\* A change test that ignores the stored modification time.
_needs_update_always(rows, j, mt) == TRUE

\* _needs_update
_needs_update(rows, j, mt) ==
    IF j \notin DOMAIN rows THEN TRUE ELSE rows[j].yaml_mtime # mt

NeedsUpdate(t) ==
    /\ pc[t] = "sc_needs"
    /\ db_lock = "free"
    /\ Goto(t, IF _needs_update(jobs, loc[t].job, loc[t].mtime)
               THEN "sc_parse" ELSE "sc_item")
    /\ UNCHANGED <<loc, job_locks, locked, db_lock, jobs, runs, last_run_id,
                   sched, live, staging, pending_updates, logs, now>>

\* scan_jobs, open + yaml.safe_load (an exception is logged and the job
\* skipped), then `job_config["_task"] = ...`, which raises out of scan_jobs
\* when the document is not a mapping.
ScanParse(t) ==
    /\ pc[t] = "sc_parse"
    /\ LET d == loc[t].job IN
       IF d \notin DOMAIN live \/ Manifest \notin DOMAIN live[d]
       THEN /\ Goto(t, "sc_item")
            /\ UNCHANGED loc
       ELSE LET body == live[d][Manifest].body IN
            CASE Parse(body).kind = "error" ->
                    /\ Goto(t, "sc_item")
                    /\ UNCHANGED loc
              [] Parse(body).kind = "nondict" -> Return(t)
              [] OTHER ->
                    /\ SetLoc(t, [loc[t] EXCEPT !.doc = body])
                    /\ Goto(t, "sc_reg")
    /\ UNCHANGED <<job_locks, locked, db_lock, jobs, runs, last_run_id, sched,
                   live, staging, pending_updates, logs, now>>

\* register_job, the UPDATE or INSERT: an existing row keeps its enabled flag
\* and its task.
RegisterRow(rows, j, doc, mt) ==
    IF j \in DOMAIN rows
    THEN JobRow(rows[j].task, doc, rows[j].enabled, mt)
    ELSE JobRow(j, doc, TRUE, mt)

\* register_job, the store part, under the store lock.
RegisterDb(t) ==
    /\ pc[t] = "sc_reg"
    /\ db_lock = "free"
    /\ LET row == RegisterRow(jobs, loc[t].job, Parse(loc[t].doc), loc[t].mtime) IN
          /\ jobs' = Put(jobs, loc[t].job, row)
          /\ SetLoc(t, [loc[t] EXCEPT !.enabled = row.enabled])
    /\ Goto(t, "sc_unsched")
    /\ UNCHANGED <<job_locks, locked, db_lock, runs, last_run_id, sched, live,
                   staging, pending_updates, logs, now>>

\* _schedule_job called by register_job, `self.scheduler.remove_job(job_id)`
\* and `if not enabled: return`
ScheduleRemove(t) ==
    /\ pc[t] = "sc_unsched"
    /\ sched' = SchedRemove(sched, loc[t].job)
    /\ Goto(t, IF loc[t].enabled THEN "sc_add" ELSE "sc_item")
    /\ UNCHANGED <<loc, job_locks, locked, db_lock, jobs, runs, last_run_id,
                   live, staging, pending_updates, logs, now>>

\* _schedule_job called by register_job, scheduler.add_job: a rejected
\* trigger raises out of register_job and scan_jobs.
ScheduleAdd(t) ==
    /\ pc[t] = "sc_add"
    /\ LET trig == TriggerOf(Parse(loc[t].doc).stype, Parse(loc[t].doc).params) IN
       IF TriggerAccepted(trig)
       THEN /\ sched' = SchedAdd(sched, loc[t].job, trig)
            /\ Goto(t, "sc_item")
            /\ UNCHANGED loc
       ELSE /\ Return(t)
            /\ UNCHANGED sched
    /\ UNCHANGED <<job_locks, locked, db_lock, jobs, runs, last_run_id, live,
                   staging, pending_updates, logs, now>>

\* _remove_stale_jobs, taking the store lock and `SELECT id FROM jobs`
StaleIds(rows, found) == (DOMAIN rows) \ found

StaleBegin(t) ==
    /\ pc[t] = "sc_stale"
    /\ db_lock = "free"
    /\ db_lock' = t
    /\ SetLoc(t, [loc[t] EXCEPT !.todo = StaleIds(jobs, loc[t].found), !.dels = {}])
    /\ Goto(t, "sc_unreg")
    /\ UNCHANGED <<job_locks, locked, jobs, runs, last_run_id, sched, live,
                   staging, pending_updates, logs, now>>

\* _remove_stale_jobs, one unregister_job(id, conn) per stale row (the
\* trigger goes at once, the DELETE waits for the commit), then commit, close
\* and release of the store lock.
StaleUnregister(t) ==
    /\ pc[t] = "sc_unreg"
    /\ IF loc[t].todo # {}
       THEN LET j == NextDir(loc[t].todo) IN
            /\ sched' = SchedRemove(sched, j)
            /\ SetLoc(t, [loc[t] EXCEPT !.todo = @ \ {j}, !.dels = @ \cup {j}])
            /\ UNCHANGED <<pc, jobs, db_lock>>
       ELSE /\ jobs' = Restrict(jobs, (DOMAIN jobs) \ loc[t].dels)
            /\ db_lock' = "free"
            /\ Return(t)
            /\ UNCHANGED sched
    /\ UNCHANGED <<job_locks, locked, runs, last_run_id, live, staging,
                   pending_updates, logs, now>>

ScanStep(t) ==
    \/ ScanList(t) \/ ScanItem(t) \/ NeedsUpdate(t) \/ ScanParse(t)
    \/ RegisterDb(t) \/ ScheduleRemove(t) \/ ScheduleAdd(t)
    \/ StaleBegin(t) \/ StaleUnregister(t)

\* ================================================================ startup
\* The process dies (at any point of any handler) and is started again:
\* threads, locks, the pending set and the in-memory scheduler are gone, the
\* store and the file system stay.  JobManager.__init__ runs
\* _cleanup_stale_runs and create_app then scans on the main thread.
Restart ==
    /\ pc' = [t \in Threads |-> IF t = MainThread THEN "sc_list" ELSE "idle"]
    /\ loc' = [t \in Threads |-> NoLoc]
    /\ job_locks' = EmptyMap
    /\ locked' = {}
    /\ db_lock' = "free"
    /\ pending_updates' = {}
    /\ sched' = NoRegs
    /\ runs' = _cleanup_stale_runs(runs, now)
    /\ UNCHANGED <<jobs, last_run_id, live, staging, logs, now>>

\* ========================================================= save_job_files
\* Characters for which str.isalnum() holds, among those a name is built of.
AlnumChars == {"a", "b"}
KeptChar(c) == c \in AlnumChars \cup {"-", "_"}

\* save_job_files, `"".join(c for c in task if c.isalnum() or c in ("-", "_"))`
Sanitize(raw) == SelectSeq(raw, KeptChar)

\* Task names a caller may send.
RawNames == {<<"a">>, <<".", "b">>, <<"/">>}

\* An uploaded file is its client-side path (a sequence of components, empty
\* when the part has no file name) and its content.
Upload(path, body) == [fn |-> path, body |-> body]
\* Path(file.filename).name
Basename(path) == path[Len(path)]

\* What a caller may upload: the files, and the manifest fields ("" when the
\* form carries no schedule type), named by the manifest they dump to.
Bundles ==
    { [files |-> <<Upload(<<"job.yaml">>, "interval_seconds"),
                   Upload(<<"main.py">>, "code1")>>,
       config |-> ""],
      [files |-> <<Upload(<<"up", "main.py">>, "code2"), Upload(<<>>, "code3")>>,
       config |-> "cron_hour"] }

\* save_job_files, the loop over the files: the first k are written at time m.
RECURSIVE SaveFiles(_, _, _, _)
SaveFiles(dir, files, k, m) ==
    IF k = 0 THEN dir
    ELSE LET d == SaveFiles(dir, files, k - 1, m)
             f == files[k] IN
         IF f.fn = <<>> THEN d ELSE Put(d, Basename(f.fn), MkFile(m, f.body))

\* save_job_files, has_yaml after the loop.
HasYaml(files) ==
    \E i \in 1..Len(files) : files[i].fn # <<>> /\ Basename(files[i].fn) = Manifest

\* save_job_files, the staged directory after the loop and the generated
\* manifest.
StagedDir(dir, files, config, m) ==
    LET d == SaveFiles(dir, files, Len(files), m) IN
    IF ~HasYaml(files) /\ config # "" THEN Put(d, Manifest, MkFile(m, config)) ELSE d

\* The upload handler calls save_job_files(task, files, job_config).
StageBegin(t, raw, b) ==
    /\ pc[t] = "idle"
    /\ Goto(t, "st_check")
    /\ SetLoc(t, [NoLoc EXCEPT !.job = Sanitize(raw), !.files = b.files,
                                !.config = b.config])
    /\ UNCHANGED <<job_locks, locked, db_lock, jobs, runs, last_run_id, sched,
                   live, staging, pending_updates, logs, now>>

\* save_job_files, the two validation errors.
StageRejects(j, lv, sg) ==
    \/ j = NoTask
    \/ (j \in DOMAIN lv /\ j \notin DOMAIN sg)

StageCheck(t) ==
    /\ pc[t] = "st_check"
    /\ IF StageRejects(loc[t].job, live, staging)
       THEN Return(t)
       ELSE /\ Goto(t, "st_clear")
            /\ UNCHANGED loc
    /\ UNCHANGED <<job_locks, locked, db_lock, jobs, runs, last_run_id, sched,
                   live, staging, pending_updates, logs, now>>

\* save_job_files, `if staging_path.exists(): shutil.rmtree(staging_path)`
StageClear(t) ==
    /\ pc[t] = "st_clear"
    /\ staging' = Del(staging, loc[t].job)
    /\ Goto(t, "st_mkdir")
    /\ UNCHANGED <<loc, job_locks, locked, db_lock, jobs, runs, last_run_id,
                   sched, live, pending_updates, logs, now>>

\* A stage that makes its directory under the jobs root instead of the
\* staging area.
StageMkdirLive(t) ==
    /\ pc[t] = "st_mkdir"
    /\ live' = IF loc[t].job \in DOMAIN live THEN live
               ELSE Put(live, loc[t].job, EmptyDir)
    /\ Goto(t, "st_save")
    /\ UNCHANGED <<loc, job_locks, locked, db_lock, jobs, runs, last_run_id,
                   sched, staging, pending_updates, logs, now>>

\* save_job_files, `staging_path.mkdir(parents=True, exist_ok=True)`
StageMkdir(t) ==
    /\ pc[t] = "st_mkdir"
    /\ staging' = IF loc[t].job \in DOMAIN staging THEN staging
                  ELSE Put(staging, loc[t].job, EmptyDir)
    /\ Goto(t, "st_save")
    /\ UNCHANGED <<loc, job_locks, locked, db_lock, jobs, runs, last_run_id,
                   sched, live, pending_updates, logs, now>>

\* save_job_files, the saving of the files and of the generated manifest.  A
\* write may fail (the directory was removed meanwhile, the disk is full):
\* the exception leaves save_job_files with the first k files written.
StageSave(t) ==
    /\ pc[t] = "st_save"
    /\ LET j == loc[t].job IN
       IF j \notin DOMAIN staging
       THEN /\ Return(t)
            /\ UNCHANGED staging
       ELSE \E k \in 0..Len(loc[t].files) :
              IF k < Len(loc[t].files)
              THEN /\ staging' = Put(staging, j, SaveFiles(staging[j], loc[t].files, k, now))
                   /\ Return(t)
              ELSE /\ staging' = Put(staging, j,
                          StagedDir(staging[j], loc[t].files, loc[t].config, now))
                   /\ Goto(t, "st_pend")
                   /\ UNCHANGED loc
    /\ UNCHANGED <<job_locks, locked, db_lock, jobs, runs, last_run_id, sched,
                   live, pending_updates, logs, now>>

\* save_job_files, `self.pending_updates.add(job_id)` and the return.
StagePend(t) ==
    /\ pc[t] = "st_pend"
    /\ pending_updates' = pending_updates \cup {loc[t].job}
    /\ Return(t)
    /\ UNCHANGED <<job_locks, locked, db_lock, jobs, runs, last_run_id, sched,
                   live, staging, logs, now>>

StageStep(t) ==
    \/ StageCheck(t) \/ StageClear(t) \/ StageMkdir(t) \/ StageSave(t)
    \/ StagePend(t)

\* ================================================ process_pending_updates
\* The _system_update job of create_app; the scheduler runs at most one
\* instance of it at a time (max_instances defaults to 1).
PendBegin(t) ==
    /\ pc[t] = "idle"
    /\ \A u \in Threads : loc[u].via # "pending"
    /\ Goto(t, "pp_check")
    /\ SetLoc(t, [NoLoc EXCEPT !.via = "pending"])
    /\ UNCHANGED <<job_locks, locked, db_lock, jobs, runs, last_run_id, sched,
                   live, staging, pending_updates, logs, now>>

\* process_pending_updates, `if not self.pending_updates: return`
PendCheck(t) ==
    /\ pc[t] = "pp_check"
    /\ IF pending_updates = {}
       THEN Return(t)
       ELSE /\ Goto(t, "pp_idle")
            /\ UNCHANGED loc
    /\ UNCHANGED <<job_locks, locked, db_lock, jobs, runs, last_run_id, sched,
                   live, staging, pending_updates, logs, now>>

\* is_system_idle: no lock object of the registry is held.  The loop over
\* self._job_locks.values() is taken as one reading of the registry.
is_system_idle(registry, held) ==
    \A j \in DOMAIN registry : <<j, registry[j]>> \notin held

\* process_pending_updates, `if not self.is_system_idle(): return` and
\* `to_process = list(self.pending_updates)`
IdlePoll(t) ==
    /\ pc[t] = "pp_idle"
    /\ IF is_system_idle(job_locks, locked)
       THEN /\ SetLoc(t, [loc[t] EXCEPT !.todo = pending_updates])
            /\ Goto(t, "pp_item")
       ELSE Return(t)
    /\ UNCHANGED <<job_locks, locked, db_lock, jobs, runs, last_run_id, sched,
                   live, staging, pending_updates, logs, now>>

\* process_pending_updates, the head of the loop over to_process: a missing
\* staged bundle clears the marker; after the loop, scan_jobs.
PendItem(t) ==
    /\ pc[t] = "pp_item"
    /\ IF loc[t].todo = {}
       THEN /\ Goto(t, "sc_list")
            /\ UNCHANGED <<loc, pending_updates>>
       ELSE LET j == NextDir(loc[t].todo) IN
            IF j \notin DOMAIN staging
            THEN /\ pending_updates' = pending_updates \ {j}
                 /\ SetLoc(t, [loc[t] EXCEPT !.todo = @ \ {j}])
                 /\ UNCHANGED pc
            ELSE /\ SetLoc(t, [loc[t] EXCEPT !.todo = @ \ {j}, !.job = j])
                 /\ Goto(t, "pp_mkdir")
                 /\ UNCHANGED pending_updates
    /\ UNCHANGED <<job_locks, locked, db_lock, jobs, runs, last_run_id, sched,
                   live, staging, logs, now>>

\* process_pending_updates, `dest_path.mkdir(parents=True, exist_ok=True)`
PendMkdir(t) ==
    /\ pc[t] = "pp_mkdir"
    /\ live' = IF loc[t].job \in DOMAIN live THEN live
               ELSE Put(live, loc[t].job, EmptyDir)
    /\ Goto(t, "pp_copy")
    /\ UNCHANGED <<loc, job_locks, locked, db_lock, jobs, runs, last_run_id,
                   sched, staging, pending_updates, logs, now>>

\* A copy that stops at the existing destination directory (copytree
\* without dirs_exist_ok).
CopyTreeNoMerge(src, dst, S) == dst

\* shutil.copytree(src, dst, dirs_exist_ok=True) of the files named in S:
\* every file of src replaces or adds the file of that name in dst.
CopyTree(src, dst, S) ==
    [f \in (DOMAIN dst) \cup S |-> IF f \in S THEN src[f] ELSE dst[f]]

\* A copy whose failure ends the loop over to_process (the try/except around
\* the loop instead of inside it).
PendCopyAbortsPass(t) ==
    /\ pc[t] = "pp_copy"
    /\ LET j == loc[t].job IN
       IF j \notin DOMAIN staging
       THEN /\ Goto(t, "sc_list")
            /\ UNCHANGED live
       ELSE \E S \in SUBSET (DOMAIN staging[j]) :
              /\ live' = Put(live, j,
                     CopyTree(staging[j], IF j \in DOMAIN live THEN live[j] ELSE EmptyDir, S))
              /\ Goto(t, IF S = DOMAIN staging[j] THEN "pp_rm" ELSE "sc_list")
    /\ UNCHANGED <<loc, job_locks, locked, db_lock, jobs, runs, last_run_id,
                   sched, staging, pending_updates, logs, now>>

\* process_pending_updates, the copytree.  It raises when the staged bundle
\* is gone, or after copying only the files it could copy; the exception is
\* logged and the loop goes on, the marker stays.
PendCopy(t) ==
    /\ pc[t] = "pp_copy"
    /\ LET j == loc[t].job IN
       IF j \notin DOMAIN staging
       THEN /\ Goto(t, "pp_item")
            /\ UNCHANGED live
       ELSE \E S \in SUBSET (DOMAIN staging[j]) :
              /\ live' = Put(live, j,
                     CopyTree(staging[j], IF j \in DOMAIN live THEN live[j] ELSE EmptyDir, S))
              /\ Goto(t, IF S = DOMAIN staging[j] THEN "pp_rm" ELSE "pp_item")
    /\ UNCHANGED <<loc, job_locks, locked, db_lock, jobs, runs, last_run_id,
                   sched, staging, pending_updates, logs, now>>

\* process_pending_updates, `shutil.rmtree(staging_path)`.  It raises when
\* the bundle is gone, or after removing only the files it could remove; the
\* exception is logged and the loop goes on, the marker stays.
PendRmtree(t) ==
    /\ pc[t] = "pp_rm"
    /\ LET j == loc[t].job IN
       IF j \notin DOMAIN staging
       THEN /\ Goto(t, "pp_item")
            /\ UNCHANGED staging
       ELSE \E S \in SUBSET (DOMAIN staging[j]) :
              IF S = DOMAIN staging[j]
              THEN /\ staging' = Del(staging, j)
                   /\ Goto(t, "pp_discard")
              ELSE /\ staging' = Put(staging, j,
                                     Restrict(staging[j], (DOMAIN staging[j]) \ S))
                   /\ Goto(t, "pp_item")
    /\ UNCHANGED <<loc, job_locks, locked, db_lock, jobs, runs, last_run_id,
                   sched, live, pending_updates, logs, now>>

\* process_pending_updates, `self.pending_updates.discard(job_id)`
PendDiscard(t) ==
    /\ pc[t] = "pp_discard"
    /\ pending_updates' = pending_updates \ {loc[t].job}
    /\ Goto(t, "pp_item")
    /\ UNCHANGED <<loc, job_locks, locked, db_lock, jobs, runs, last_run_id,
                   sched, live, staging, logs, now>>

PendStep(t) ==
    \/ PendCheck(t) \/ IdlePoll(t) \/ PendItem(t) \/ PendMkdir(t)
    \/ PendCopy(t) \/ PendRmtree(t) \/ PendDiscard(t)

\* ============================================================= toggle_job
\* api_toggle calls toggle_job(job_id).
ToggleBegin(t, j) ==
    /\ pc[t] = "idle"
    /\ Goto(t, "tg_db")
    /\ SetLoc(t, [NoLoc EXCEPT !.job = j])
    /\ UNCHANGED <<job_locks, locked, db_lock, jobs, runs, last_run_id, sched,
                   live, staging, pending_updates, logs, now>>

\* toggle_job, `new_state = 0 if row["enabled"] else 1`
ToggledRow(row) == [row EXCEPT !.enabled = ~row.enabled]

\* toggle_job, the SELECT and the UPDATE under the store lock, which stays
\* held while _schedule_job runs; an unknown id returns False.
ToggleDb(t) ==
    /\ pc[t] = "tg_db"
    /\ db_lock = "free"
    /\ LET j == loc[t].job IN
       IF j \notin DOMAIN jobs
       THEN /\ Return(t)
            /\ UNCHANGED <<jobs, db_lock>>
       ELSE /\ jobs' = Put(jobs, j, ToggledRow(jobs[j]))
            /\ db_lock' = t
            /\ SetLoc(t, [loc[t] EXCEPT !.enabled = ~jobs[j].enabled,
                                         !.row = Some(jobs[j])])
            /\ Goto(t, "tg_unsched")
    /\ UNCHANGED <<job_locks, locked, runs, last_run_id, sched, live, staging,
                   pending_updates, logs, now>>

\* _schedule_job called by toggle_job, remove_job and `if not enabled: return`
ToggleRemove(t) ==
    /\ pc[t] = "tg_unsched"
    /\ sched' = SchedRemove(sched, loc[t].job)
    /\ IF loc[t].enabled
       THEN /\ Goto(t, "tg_add")
            /\ UNCHANGED <<loc, db_lock>>
       ELSE /\ db_lock' = "free"
            /\ Return(t)
    /\ UNCHANGED <<job_locks, locked, jobs, runs, last_run_id, live, staging,
                   pending_updates, logs, now>>

\* _schedule_job called by toggle_job, add_job (a rejected trigger raises out
\* of toggle_job), then `finally: conn.close()` and the store lock's release.
ToggleAdd(t) ==
    /\ pc[t] = "tg_add"
    /\ LET row == loc[t].row[1]
           trig == TriggerOf(row.schedule_type, row.schedule_config) IN
       sched' = IF TriggerAccepted(trig) THEN SchedAdd(sched, loc[t].job, trig)
                ELSE sched
    /\ db_lock' = "free"
    /\ Return(t)
    /\ UNCHANGED <<job_locks, locked, jobs, runs, last_run_id, live, staging,
                   pending_updates, logs, now>>

ToggleStep(t) == ToggleDb(t) \/ ToggleRemove(t) \/ ToggleAdd(t)

\* ======================================================= cleanup_old_logs
\* log_retention_days, in ticks of the clock.
RetentionTicks == 1

\* The periodic _system_cleanup job of create_app.
CleanupBegin(t) ==
    /\ pc[t] = "idle"
    /\ Goto(t, "cl_cutoff")
    /\ UNCHANGED <<loc, job_locks, locked, db_lock, jobs, runs, last_run_id,
                   sched, live, staging, pending_updates, logs, now>>

\* cleanup_old_logs, `cutoff = datetime.now() - timedelta(days=...)`
CleanupCutoff(t) ==
    /\ pc[t] = "cl_cutoff"
    /\ SetLoc(t, [loc[t] EXCEPT !.cutoff = now - RetentionTicks])
    /\ Goto(t, "cl_db")
    /\ UNCHANGED <<job_locks, locked, db_lock, jobs, runs, last_run_id, sched,
                   live, staging, pending_updates, logs, now>>

\* cleanup_old_logs, `SELECT log_path FROM runs WHERE started_at < ?` and the
\* rows the DELETE with the same condition removes.
OldRuns(rs, c) == {r \in rs : r.started_at < c}

\* cleanup_old_logs, the loop that unlinks the log file of every old row
\* (the files in F cannot be unlinked: the exception is logged), and the
\* DELETE, under the store lock.
CleanupDb(t) ==
    /\ pc[t] = "cl_db"
    /\ db_lock = "free"
    /\ LET old == OldRuns(runs, loc[t].cutoff)
           paths == {r.log_path : r \in old} \cap DOMAIN logs IN
       \E F \in SUBSET paths :
          /\ logs' = Restrict(logs, (DOMAIN logs) \ (paths \ F))
          /\ runs' = runs \ old
    /\ Return(t)
    /\ UNCHANGED <<job_locks, locked, db_lock, jobs, last_run_id, sched, live,
                   staging, pending_updates, now>>

CleanupStep(t) == CleanupCutoff(t) \/ CleanupDb(t)

\* ======================================================== get_log_content
\* A path is a sequence of components, a component a sequence of tokens (the
\* name logs2 is <<"logs", "2">>), so that a string prefix can end inside a
\* component.  A requested path is absolute or relative.
DotDot == <<"..">>
ProjectRoot == << <<"srv">> >>
LogsRoot == ProjectRoot \o << <<"logs">> >>
ReqPath(abs, parts) == [abs |-> abs, parts |-> parts]

\* self.logs_dir / log_path: an absolute right operand replaces the left one.
JoinPath(root, rq) == IF rq.abs THEN rq.parts ELSE root \o rq.parts

\* Path.resolve(): the first k components with every ".." applied (".." at
\* the root stays at the root).
RECURSIVE Resolve(_, _)
Resolve(parts, k) ==
    IF k = 0 THEN <<>>
    ELSE LET n == Resolve(parts, k - 1) IN
         IF parts[k] = DotDot
         THEN IF n = <<>> THEN <<>> ELSE SubSeq(n, 1, Len(n) - 1)
         ELSE Append(n, parts[k])

\* str(path): the tokens of the first k components, each after a separator.
RECURSIVE PathStr(_, _)
PathStr(parts, k) ==
    IF k = 0 THEN <<>> ELSE PathStr(parts, k - 1) \o <<"/">> \o parts[k]

\* str.startswith
StartsWith(str, prefix) ==
    Len(str) >= Len(prefix) /\ SubSeq(str, 1, Len(prefix)) = prefix

\* The absolute path of the log file of a Run row.
LogAbs(key) == LogsRoot \o << key[1], <<ToString(key[2])>> >>

\* Files of the machine outside the logs root: one in a sibling directory
\* whose name begins with the name of the logs root, one elsewhere.
OtherFiles == { ProjectRoot \o << <<"logs", "2">>, <<"x">> >>,
                << <<"etc">>, <<"passwd">> >> }

\* full_path.exists() and read_text(): the content of a file is named by
\* its location.
FileExists(full, lg) == full \in OtherFiles \/ \E k \in DOMAIN lg : LogAbs(k) = full

\* get_log_content
get_log_content(rq, lg) ==
    LET joined == JoinPath(LogsRoot, rq)
        full == Resolve(joined, Len(joined)) IN
    IF ~StartsWith(PathStr(full, Len(full)), PathStr(LogsRoot, Len(LogsRoot)))
    THEN NULL
    ELSE IF ~FileExists(full, lg) THEN NULL ELSE Some(full)

\* Paths a client may ask for.
LogRequests ==
    { ReqPath(FALSE, << TaskA, <<"0">> >>),
      ReqPath(FALSE, << TaskA, <<"1">> >>),
      ReqPath(FALSE, << DotDot, DotDot, <<"etc">>, <<"passwd">> >>),
      ReqPath(FALSE, << DotDot, <<"logs", "2">>, <<"x">> >>),
      ReqPath(FALSE, << TaskA, DotDot, DotDot, <<"logs", "2">>, <<"x">> >>),
      ReqPath(FALSE, << DotDot, <<"logs">>, TaskA, <<"0">> >>),
      ReqPath(TRUE, << <<"etc">>, <<"passwd">> >>),
      ReqPath(TRUE, ProjectRoot \o << <<"logs", "2">>, <<"x">> >>) }

\* view_log calls get_log_content(log_path).
LogBegin(t, rq) ==
    /\ pc[t] = "idle"
    /\ Goto(t, "lg_read")
    /\ SetLoc(t, [NoLoc EXCEPT !.path = rq])
    /\ UNCHANGED <<job_locks, locked, db_lock, jobs, runs, last_run_id, sched,
                   live, staging, pending_updates, logs, now>>

LogRead(t) ==
    /\ pc[t] = "lg_read"
    /\ SetLoc(t, [loc[t] EXCEPT !.ret = get_log_content(loc[t].path, logs)])
    /\ Goto(t, "lg_done")
    /\ UNCHANGED <<job_locks, locked, db_lock, jobs, runs, last_run_id, sched,
                   live, staging, pending_updates, logs, now>>

\* view_log answers with the content or with "Log not found".
LogDone(t) ==
    /\ pc[t] = "lg_done"
    /\ Return(t)
    /\ UNCHANGED <<job_locks, locked, db_lock, jobs, runs, last_run_id, sched,
                   live, staging, pending_updates, logs, now>>

LogStep(t) == LogRead(t) \/ LogDone(t)

\* ============================================================ environment
\* Manifest bodies the operator may put on disk.
ManifestBodies == {"interval_seconds", "interval_hour", "malformed", "empty"}

\* The operator writes a task's manifest in the jobs directory (creating the
\* task directory when needed); the file's modification time changes.
EnvWriteManifest(j, body) ==
    /\ j \in DOMAIN live /\ Manifest \in DOMAIN live[j] => live[j][Manifest].mtime < now
    /\ live' = Put(live, j, Put(IF j \in DOMAIN live THEN live[j] ELSE EmptyDir,
                                 Manifest, MkFile(now, body)))
    /\ UNCHANGED <<pc, loc, job_locks, locked, db_lock, jobs, runs, last_run_id,
                   sched, staging, pending_updates, logs, now>>

\* The operator removes a task directory from the jobs directory.
EnvRemoveTask(j) ==
    /\ j \in DOMAIN live
    /\ live' = Del(live, j)
    /\ UNCHANGED <<pc, loc, job_locks, locked, db_lock, jobs, runs, last_run_id,
                   sched, staging, pending_updates, logs, now>>

\* ================================================================== specs
\* The jobs directory the engine is started on: one task with its manifest.
InitLive == Put(EmptyMap, TaskA, Put(EmptyDir, Manifest, MkFile(0, "interval_seconds")))

\* The state after JobManager.__init__ on an empty store, create_app about
\* to run its first scan on the main thread.
Init ==
    /\ pc = [t \in Threads |-> IF t = MainThread THEN "sc_list" ELSE "idle"]
    /\ loc = [t \in Threads |-> NoLoc]
    /\ job_locks = EmptyMap
    /\ locked = {}
    /\ db_lock = "free"
    /\ jobs = EmptyMap
    /\ runs = {}
    /\ last_run_id = 0
    /\ sched = NoRegs
    /\ live = InitLive
    /\ staging = EmptyMap
    /\ pending_updates = {}
    /\ logs = EmptyMap
    /\ now = 0

\* --- the execution engine: concurrent execute_job calls, crashes and restarts
NextExec ==
    \/ \E t \in Threads :
          \/ \E j \in Tasks : ExecBegin(t, j)
          \/ ExecStep(t)
          \/ ScanStep(t)
    \/ Restart
    \/ Tick

SpecExec == Init /\ [][NextExec]_vars

\* --- the updater: uploads and the promotion poll beside running jobs
NextUpdate ==
    \/ \E t \in Threads : ExecBegin(t, TaskA) \/ ExecStep(t) \/ ScanStep(t)
    \/ \E raw \in {<<".", "b">>}, b \in Bundles : b.config = "" /\ StageBegin("t2", raw, b)
    \/ StageStep("t2")
    \/ PendBegin(MainThread)
    \/ PendStep(MainThread)

SpecUpdate == Init /\ [][NextUpdate]_vars

\* --- one call at a time: uploads, promotion polls and restarts
AllIdle == \A t \in Threads : pc[t] = "idle"

NextStage ==
    \/ /\ AllIdle
       /\ \/ \E raw \in RawNames, b \in Bundles : StageBegin(MainThread, raw, b)
          \/ PendBegin(MainThread)
    \/ StageStep(MainThread)
    \/ PendStep(MainThread)
    \/ ScanStep(MainThread)
    \/ Restart

SpecStage == Init /\ [][NextStage]_vars

\* --- one call at a time: scans, toggles and runs while the operator edits
\* the jobs directory
NextScan ==
    \/ /\ AllIdle
       /\ \/ ScanBegin(MainThread)
          \/ \E j \in Tasks : ToggleBegin(MainThread, j)
          \/ \E j \in Tasks, body \in ManifestBodies : EnvWriteManifest(j, body)
          \/ \E j \in Tasks : EnvRemoveTask(j)
          \/ Tick
    \/ ScanStep(MainThread)
    \/ ToggleStep(MainThread)

SpecScan == Init /\ [][NextScan]_vars

\* --- one call at a time: runs of one job and the retention cleanup
NextRetain ==
    \/ /\ AllIdle
       /\ \/ ExecBegin(MainThread, TaskA)
          \/ CleanupBegin(MainThread)
          \/ Tick
    \/ ExecStep(MainThread)
    \/ CleanupStep(MainThread)
    \/ ScanStep(MainThread)

SpecRetain == Init /\ [][NextRetain]_vars

\* --- one call at a time: runs of one job and reads of log files
NextLog ==
    \/ /\ AllIdle
       /\ \/ ExecBegin(MainThread, TaskA)
          \/ \E rq \in LogRequests : LogBegin(MainThread, rq)
          \/ Tick
    \/ ExecStep(MainThread)
    \/ LogStep(MainThread)
    \/ ScanStep(MainThread)

SpecLog == Init /\ [][NextLog]_vars

\* --- toggles of one job beside scans that register it
NextToggle ==
    \/ ScanBegin(MainThread)
    \/ ScanStep(MainThread)
    \/ ToggleBegin("t2", TaskA)
    \/ ToggleStep("t2")
    \/ EnvWriteManifest(TaskA, "interval_seconds")
    \/ Tick

SpecToggle == Init /\ [][NextToggle]_vars

\* --- uploads of one task beside the promotion poll, no job running
NextPromote ==
    \/ \E b \in Bundles : StageBegin("t2", <<".", "b">>, b)
    \/ StageStep("t2")
    \/ PendBegin(MainThread)
    \/ PendStep(MainThread)
    \/ ScanStep(MainThread)

SpecPromote == Init /\ [][NextPromote]_vars

\* --- manual runs of known, unknown and disabled jobs beside toggles
NextManual ==
    \/ \E j \in Tasks : ExecBegin("t2", j)
    \/ ExecStep("t2")
    \/ ToggleBegin(MainThread, TaskA)
    \/ ToggleStep(MainThread)
    \/ ScanStep(MainThread)
    \/ Tick

SpecManual == Init /\ [][NextManual]_vars

\* ================================================================= claims
RunningRows(j) == {r \in runs : r.job_id = j /\ r.status = "running"}

\* C1: for every job identifier, at most one Run row has status 'running',
\* under any interleaving of execute_job calls.
C1_AtMostOneRunning == \A j \in Tasks : Cardinality(RunningRows(j)) <= 1


\* C2: while process_pending_updates is copying a staged bundle into a live
\* task directory, no per-job lock is held.
C2_NoCopyWhileLocked == \A t \in Threads : pc[t] = "pp_copy" => locked = {}

\* C3: a promotion poll whose idle check runs while some job holds its lock
\* returns at once and leaves the live directories, the staged bundles and
\* the pending set as they are.
C3_BusyPollIsNoop ==
    [][\A t \in Threads :
          (pc[t] = "pp_idle" /\ pc'[t] # "pp_idle" /\ locked # {})
          => (pc'[t] = "idle" /\ UNCHANGED <<live, staging, pending_updates>>)]_vars

\* Program counters of save_job_files, scan_jobs and toggle_job.
StagePcs == {"st_check", "st_clear", "st_mkdir", "st_save", "st_pend"}
ScanPcs == {"sc_list", "sc_item", "sc_needs", "sc_parse", "sc_reg", "sc_unsched",
            "sc_add", "sc_stale", "sc_unreg"}

\* C4: a stage that succeeds leaves exactly the uploaded bundle in the staged
\* directory and the task pending; a promotion that then runs without a
\* filesystem error on a task with no live directory makes the live directory
\* equal to the staged one, removes the staged directory and clears the
\* pending marker.
C4_StageThenPromote ==
    [][\A t \in Threads : LET j == loc[t].job IN
          /\ (pc[t] = "st_save" /\ pc'[t] = "st_pend")
                => staging'[j] = StagedDir(EmptyDir, loc[t].files, loc[t].config, now)
          /\ (pc[t] = "st_pend" /\ pc'[t] = "idle")
                => (j \in pending_updates' /\ staging' = staging)
          /\ (pc[t] = "pp_mkdir" /\ pc'[t] = "pp_copy" /\ j \notin DOMAIN live)
                => (live'[j] = EmptyDir /\ staging' = staging)
          /\ (pc[t] = "pp_copy" /\ pc'[t] = "pp_rm" /\ live[j] = EmptyDir)
                => (live'[j] = staging[j] /\ staging' = staging)
          /\ (pc[t] = "pp_rm" /\ pc'[t] = "pp_discard")
                => (j \notin DOMAIN staging' /\ live' = live)
          /\ (pc[t] = "pp_discard" /\ pc'[t] = "pp_item")
                => (j \notin pending_updates' /\ live' = live /\ staging' = staging)
      ]_vars

\* C4 witness: a new task has been staged and promoted: its live directory is
\* the uploaded bundle, nothing of it is staged or pending.
C4_Promoted ==
    /\ AllIdle
    /\ TaskB \in DOMAIN live
    /\ TaskB \notin DOMAIN staging
    /\ TaskB \notin pending_updates
    /\ \E b \in Bundles : live[TaskB] = StagedDir(EmptyDir, b.files, b.config, 0)

\* C5: every step of save_job_files, in a call that succeeds or fails, leaves
\* the live directories, the Job and Run rows and the registrations unchanged;
\* it writes nothing in the staging area but the bundle of the sanitized name,
\* and the pending set only gains that name, at the end of a successful call.
C5_StageFrame ==
    [][\A t \in Threads :
          ((pc[t] \in StagePcs \cup {"idle"}) /\ (pc'[t] \in StagePcs \cup {"idle"})
             /\ pc'[t] # pc[t] /\ pc'[MainThread] # "sc_list")
          => LET j == IF pc[t] = "idle" THEN loc'[t].job ELSE loc[t].job IN
             /\ UNCHANGED <<live, jobs, runs, sched>>
             /\ Del(staging', j) = Del(staging, j)
             /\ pending_updates' \in {pending_updates, pending_updates \cup {j}}
             /\ pending_updates' # pending_updates => pc[t] = "st_pend"
      ]_vars

\* C5 witness: a stage has written its bundle and is about to return.
C5_Staged ==
    \E t \in Threads :
        /\ pc[t] = "st_pend"
        /\ loc[t].job \in DOMAIN staging
        /\ staging[loc[t].job] # EmptyDir

\* C6: save_job_files raises its validation error whenever a live directory of
\* the sanitized name exists, whatever is staged, and whenever the sanitized
\* name is empty; a call that fails validation leaves the staging area and the
\* pending set unchanged.
C6_LiveNameRejected ==
    [][\A t \in Threads :
          (pc[t] = "st_check" /\ pc'[t] # "st_check" /\ pc'[MainThread] # "sc_list")
          => /\ (loc[t].job \in DOMAIN live \/ loc[t].job = NoTask) => pc'[t] = "idle"
             /\ pc'[t] = "idle" => UNCHANGED <<staging, pending_updates>>
      ]_vars

\* C7: a scan never registers again a job whose manifest has the stored
\* modification time; no step of a scan changes the Job row or the
\* registration of such a job, nor the Run table.
C7_UnchangedMtimeIsNoop ==
    [][\A t \in Threads :
          /\ (pc[t] \in ScanPcs /\ pc'[t] # "sc_list") =>
                /\ runs' = runs
                /\ \A j \in (DOMAIN jobs) \cap (DOMAIN live) :
                      (/\ Manifest \in DOMAIN live[j]
                       /\ jobs[j].yaml_mtime = live[j][Manifest].mtime
                       /\ ~(pc[t] \in {"sc_unsched", "sc_add"} /\ loc[t].job = j))
                      => (/\ j \in DOMAIN jobs'
                          /\ jobs'[j] = jobs[j]
                          /\ sched'[j] = sched[j]
                          /\ Len(sched'[j]) <= 1)
          /\ (pc[t] = "sc_needs" /\ pc'[t] = "sc_parse") =>
                (loc[t].job \in DOMAIN jobs => jobs[loc[t].job].yaml_mtime # loc[t].mtime)
      ]_vars

\* C7 witness: a scan is at a registered, scheduled job whose manifest has the
\* stored modification time.
C7_SameMtimeSeen ==
    \E t \in Threads :
        /\ pc[t] = "sc_needs"
        /\ loc[t].job \in DOMAIN jobs
        /\ jobs[loc[t].job].yaml_mtime = loc[t].mtime
        /\ Len(sched[loc[t].job]) = 1

\* C8: when a scan returns, a job whose manifest is not on disk has no Job row
\* and no registration; no step of a scan changes the Run table.
C8_StaleJobRemoved ==
    [][\A t \in Threads :
          /\ (pc[t] \in ScanPcs /\ pc'[t] = "idle") =>
                \A j \in Tasks :
                    (j \notin DOMAIN live \/ Manifest \notin DOMAIN live[j])
                    => (j \notin DOMAIN jobs' /\ sched'[j] = <<>>)
          /\ (pc[t] \in ScanPcs /\ pc'[t] # "sc_list") => runs' = runs
      ]_vars

\* C9: toggle_job on a disabled job enables it and leaves exactly one
\* registration of it; on an enabled job it disables it and leaves none; on
\* an unknown identifier it changes neither the store nor the registrations.
C9_ToggleRegistration ==
    [][\A t \in Threads : LET j == loc[t].job IN
          /\ (pc[t] = "tg_db" /\ pc'[t] = "idle")
                => (j \notin DOMAIN jobs /\ UNCHANGED <<jobs, runs, sched>>)
          /\ (pc[t] = "tg_db" /\ pc'[t] = "tg_unsched")
                => (jobs'[j].enabled = ~jobs[j].enabled)
          /\ (pc[t] \in {"tg_unsched", "tg_add"} /\ pc'[t] = "idle")
                => Len(sched'[j]) = (IF jobs'[j].enabled THEN 1 ELSE 0)
      ]_vars

\* C10: the startup after a crash leaves no Run row 'running': a row that was
\* 'running' is 'failed' with the restart message and a finish timestamp,
\* every other row is unchanged, and no row is added or lost.
C10_RestartReclassifies ==
    [][Restart =>
          /\ \A r \in runs' : r.status # "running"
          /\ \A r \in runs :
                IF r.status = "running"
                THEN \E q \in runs' :
                        /\ q.id = r.id /\ q.job_id = r.job_id
                        /\ q.started_at = r.started_at
                        /\ q.status = "failed"
                        /\ q.error_message = Some(RestartMessage)
                        /\ q.finished_at # NULL
                ELSE r \in runs'
          /\ Cardinality(runs') = Cardinality(runs)
      ]_vars

\* C10 witness: a run was left 'running' by a crash and has been reclassified
\* beside a run that had ended before the crash.
C10_Reclassified ==
    /\ \E r \in runs : r.status = "failed" /\ r.error_message = Some(RestartMessage)
    /\ \E r \in runs : r.status = "success"

\* C11: the retention cleanup deletes exactly the Run rows that started
\* strictly before the cutoff (a row that started at the cutoff stays), and no
\* Run row that stays loses its log file.
C11_RetentionExact ==
    [][\A t \in Threads :
          (pc[t] = "cl_db" /\ pc'[t] = "idle")
          => /\ runs' = {r \in runs : r.started_at >= loc[t].cutoff}
             /\ \A r \in runs' :
                   r.log_path \in DOMAIN logs => r.log_path \in DOMAIN logs'
      ]_vars

\* C12: when an execution whose subprocess exceeded the timeout returns, its
\* attempt has exactly one Run row, in status 'timeout' with a finish
\* timestamp and a duration not smaller than the timeout, and the lock it
\* took is released.
C12_TimeoutRecorded ==
    [][\A t \in Threads :
          (pc[t] = "ex_release" /\ pc'[t] = "idle" /\ loc[t].status = "timeout")
          => /\ <<loc[t].job, loc[t].lock>> \notin locked'
             /\ \E r \in runs' :
                   /\ r.id = loc[t].run
                   /\ r.status = "timeout"
                   /\ r.finished_at # NULL
                   /\ r.duration_seconds # NULL
                   /\ r.duration_seconds[1] >= loc[t].timeout
             /\ Cardinality({r \in runs' : r.id = loc[t].run}) = 1
      ]_vars

\* A location is inside the logs root when the root's components are its
\* first components.
InsideLogsRoot(full) ==
    Len(full) >= Len(LogsRoot) /\ SubSeq(full, 1, Len(LogsRoot)) = LogsRoot

\* C13: get_log_content returns None for every requested path whose resolved
\* location is not inside the logs root.
C13_NoReadOutsideLogs ==
    \A t \in Threads :
        pc[t] = "lg_done" =>
            LET joined == JoinPath(LogsRoot, loc[t].path) IN
            ~InsideLogsRoot(Resolve(joined, Len(joined))) => loc[t].ret = NULL

\* Program counters of toggle_job and of register_job.
TogglePcs == {"tg_db", "tg_unsched", "tg_add"}
RegisterPcs == {"sc_reg", "sc_unsched", "sc_add"}

\* C14: when no scan, registration or toggle is in progress, every Job row
\* with enabled=1 has exactly one trigger registration.
C14_EnabledHasOneTrigger ==
    AllIdle => \A j \in DOMAIN jobs : jobs[j].enabled => Len(sched[j]) = 1

\* C15: when no toggle and no registration is in progress, a Job row with
\* enabled=0 has no trigger registration.
C15_DisabledHasNoTrigger ==
    (\A t \in Threads : pc[t] \notin TogglePcs \cup RegisterPcs)
    => \A j \in DOMAIN jobs : ~jobs[j].enabled => sched[j] = <<>>

\* C16: every Run row in a terminal status has a finish timestamp and a
\* duration.
C16_TerminalRowsComplete ==
    \A r \in runs :
        r.status \in {"success", "failed", "timeout"}
        => (r.finished_at # NULL /\ r.duration_seconds # NULL)

\* C17: of two Run rows of one job, the one with the smaller id did not start
\* later.
C17_StartOrderFollowsId ==
    \A r1, r2 \in runs :
        (r1.job_id = r2.job_id /\ r1.id < r2.id) => r1.started_at <= r2.started_at

\* Threads that are writing the staged bundle of task j.
StageWriters(j) ==
    {u \in Threads : pc[u] \in {"st_clear", "st_mkdir", "st_save"} /\ loc[u].job = j}

\* The directory is what a stage that wrote all its files leaves.
CompleteBundle(dir) ==
    \E b \in Bundles, m \in 0..MaxClock : dir = StagedDir(EmptyDir, b.files, b.config, m)

\* C18: the promotion removes a staged bundle that a stage has written
\* completely only when every file of that bundle is in the live directory,
\* so no successful stage is lost.
C18_NoStageLost ==
    [][\A t \in Threads : LET j == loc[t].job IN
          (/\ pc[t] = "pp_rm" /\ pc'[t] = "pp_discard"
           /\ StageWriters(j) = {} /\ CompleteBundle(staging[j]))
          => \A f \in DOMAIN staging[j] :
                f \in DOMAIN live[j] /\ live[j][f] = staging[j][f]
      ]_vars

\* Lock objects of job j that some thread holds.
HeldLocks(j) == {c \in Threads : <<j, c>> \in locked}

\* C19: an execute_job that tries the lock while a lock of the job is held
\* returns at once: it takes no lock, releases none and creates no Run row.
C19_BusyReturns ==
    [][\A t \in Threads :
          (/\ ~Restart
           /\ pc[t] = "ex_acquire" /\ pc'[t] # "ex_acquire"
           /\ HeldLocks(loc[t].job) # {})
          => (pc'[t] = "idle" /\ UNCHANGED <<locked, runs, last_run_id, logs>>)
      ]_vars

\* C20: an execute_job that finds no Job row, or a row with enabled=0, goes
\* straight to the release of its lock: it creates no Run row, starts no
\* subprocess, and the lock it took is free when it returns.
C20_NoRunWithoutEnabledRow ==
    [][\A t \in Threads : LET j == loc[t].job IN
          /\ (/\ pc[t] = "ex_load" /\ pc'[t] # "ex_load"
              /\ (j \notin DOMAIN jobs \/ ~jobs[j].enabled))
             => (pc'[t] = "ex_release" /\ UNCHANGED <<runs, last_run_id, logs>>)
          /\ (pc[t] = "ex_release" /\ pc'[t] = "idle" /\ loc[t].run = 0)
             => (/\ <<j, loc[t].lock>> \notin locked'
                 /\ UNCHANGED <<runs, last_run_id, logs>>)
      ]_vars

\* C20 witness: a manual run of a disabled job is about to release its lock
\* without having inserted a Run row.
C20_DisabledSkipped ==
    \E t \in Threads :
        /\ pc[t] = "ex_release"
        /\ loc[t].run = 0
        /\ loc[t].job \in DOMAIN jobs
        /\ ~jobs[loc[t].job].enabled
        /\ <<loc[t].job, loc[t].lock>> \in locked

\* --- the execution engine within one process lifetime, with its scheduling:
\* every thread that can take a step eventually takes one (the subprocess
\* terminates or times out, a blocking acquire of the store lock returns once
\* the lock is free).
NextExecLive ==
    \/ \E t \in Threads :
          \/ \E j \in Tasks : ExecBegin(t, j)
          \/ ExecStep(t)
          \/ ScanStep(t)
    \/ Tick

SpecExecLive ==
    /\ Init
    /\ [][NextExecLive]_vars
    /\ \A t \in Threads : WF_vars(ExecStep(t)) /\ WF_vars(ScanStep(t))

\* C21: every lock that an execute_job call has acquired is eventually
\* released, whatever the outcome of the run (success, failure, timeout,
\* launch error, failed log write).
C21_LockEventuallyReleased ==
    \A j \in Tasks, c \in Threads :
        (<<j, c>> \in locked) ~> (<<j, c>> \notin locked)

\* A run whose log write failed has ended: its row is still 'running', no
\* thread is inside execute_job any more and no lock is held.
C21_ReleasedAfterError ==
    /\ \E r \in runs : r.status = "running"
    /\ \A t \in Threads : pc[t] = "idle"
    /\ locked = {}

\* C22: when an execute_job call that inserted a Run row releases the lock
\* and returns, that row has a terminal status, and a terminal status never
\* changes afterwards.
C22_TerminalBeforeRelease ==
    [][/\ \A t \in Threads :
             (Release(t) /\ loc[t].run # 0) =>
                 \E r \in runs : r.id = loc[t].run /\ r.status # "running"
       /\ \A r \in runs :
             r.status # "running" =>
                 \E q \in runs' : q.id = r.id /\ q.status = r.status]_vars

\* The manifest of task j on disk, parsed; NULL when there is none.
ManifestOf(j) ==
    IF j \in DOMAIN live /\ Manifest \in DOMAIN live[j]
    THEN Some(live[j][Manifest])
    ELSE NULL

\* No manifest on disk asks for a trigger the scheduler rejects.
NoRejectedTrigger ==
    \A j \in Tasks :
        (ManifestOf(j) # NULL /\ Parse(ManifestOf(j)[1].body).kind = "dict")
        => TriggerAccepted(TriggerOf(Parse(ManifestOf(j)[1].body).stype,
                                     Parse(ManifestOf(j)[1].body).params))

\* C23: the step of a scan that finds a manifest it cannot turn into a
\* configuration changes neither the Job rows nor the registrations, and when
\* the scan returns every job with a usable manifest has a Job row for that
\* manifest and every job without a manifest has neither row nor registration.
C23_BadManifestIsolated ==
    [][\A t \in Threads :
          /\ (pc[t] = "sc_parse" /\ pc'[t] # "sc_reg") => UNCHANGED <<jobs, sched>>
          /\ (pc[t] \in ScanPcs /\ pc'[t] = "idle" /\ NoRejectedTrigger) =>
                \A j \in Tasks :
                    IF ManifestOf(j) = NULL
                    THEN j \notin DOMAIN jobs' /\ sched'[j] = <<>>
                    ELSE Parse(ManifestOf(j)[1].body).kind = "dict"
                         => /\ j \in DOMAIN jobs'
                            /\ jobs'[j].yaml_mtime = ManifestOf(j)[1].mtime
      ]_vars

\* --- the updater alone: uploads of any task name, the promotion poll and the
\* removal of the live task, one call at a time
NextPend ==
    \/ /\ AllIdle
       /\ \/ \E raw \in RawNames, b \in Bundles : StageBegin(MainThread, raw, b)
          \/ PendBegin(MainThread)
          \/ EnvRemoveTask(TaskA)
    \/ StageStep(MainThread)
    \/ PendStep(MainThread)
    \/ ScanStep(MainThread)

SpecPend == Init /\ [][NextPend]_vars

PendPcs == {"pp_check", "pp_idle", "pp_item", "pp_mkdir", "pp_copy", "pp_rm",
            "pp_discard"}

\* C24: in a promotion pass a failed copy or removal leaves the task pending
\* and the pass goes on with the tasks still to process; the pass leaves its
\* loop only when none is left; a pending marker is removed only where the
\* staged bundle is missing or after the whole bundle was copied to the live
\* directory and removed from the staging area.
C24_PromotionFailureIsolated ==
    [][/\ \A t \in Threads : LET j == loc[t].job IN
          /\ (pc[t] \in {"pp_copy", "pp_rm"} /\ pc'[t] \notin {"pp_rm", "pp_discard"})
                => /\ pc'[t] = "pp_item"
                   /\ j \in pending_updates'
                   /\ loc'[t].todo = loc[t].todo
          /\ (pc[t] \in PendPcs /\ pc'[t] = "sc_list") => loc[t].todo = {}
          /\ (pc[t] \in PendPcs /\ pc'[t] = "idle") => pc[t] \in {"pp_check", "pp_idle"}
          /\ (pc[t] = "pp_rm" /\ pc'[t] = "pp_discard")
                => /\ j \in DOMAIN staging /\ j \notin DOMAIN staging'
                   /\ \A f \in DOMAIN staging[j] :
                         f \in DOMAIN live[j] /\ live[j][f] = staging[j][f]
       /\ \A k \in pending_updates \ pending_updates' :
             \E t \in Threads :
                \/ pc[t] = "pp_item" /\ k \notin DOMAIN staging
                \/ pc[t] = "pp_discard" /\ k = loc[t].job /\ k \notin DOMAIN staging
      ]_vars

\* C24 witness: in one pass the promotion of task a failed, it is still staged
\* and pending, and task b, next in the pass, has been copied and removed
\* from the staging area.
C24_OtherPromoted ==
    \E t \in Threads :
        /\ pc[t] = "pp_discard"
        /\ loc[t].job = TaskB
        /\ TaskA \in pending_updates
        /\ TaskA \in DOMAIN staging
        /\ TaskB \in DOMAIN live
        /\ TaskB \notin DOMAIN staging

\* --- the registration of interval jobs: manifests with every choice of
\* units, scanned one at a time
IntervalBodies == {"interval_seconds", "interval_days", "interval_days_minutes",
                   "interval_none"}

NextInterval ==
    \/ /\ AllIdle
       /\ \/ ScanBegin(MainThread)
          \/ \E j \in Tasks, body \in IntervalBodies : EnvWriteManifest(j, body)
          \/ Tick
    \/ ScanStep(MainThread)

SpecInterval == Init /\ [][NextInterval]_vars

\* C25: the add_job of an interval job registers the configured parameters
\* when seconds, minutes, hours or days is among them, and the configured
\* parameters plus a period of one hour when none of them is.
C25_IntervalParams ==
    [][\A t \in Threads :
          (pc[t] = "sc_add" /\ pc'[t] = "sc_item"
             /\ Parse(loc[t].doc).stype = "interval")
          => LET cfg == Parse(loc[t].doc).params IN
             sched'[loc[t].job][1].kwargs =
                 IF cfg \cap {"seconds", "minutes", "hours", "days"} = {}
                 THEN cfg \cup {"hours"}
                 ELSE cfg
      ]_vars

\* --- the store lock: a direct unregister_job on one thread beside toggles
\* on another and the scans
NextStore ==
    \/ ScanBegin(MainThread)
    \/ ScanStep(MainThread)
    \/ \E j \in Tasks : UnregBegin(MainThread, j)
    \/ UnregStep(MainThread)
    \/ ToggleBegin("t2", TaskA)
    \/ ToggleStep("t2")
    \/ EnvWriteManifest(TaskA, "interval_seconds")
    \/ Tick

SpecStore == Init /\ [][NextStore]_vars

\* The threads that have a store connection open: between the open and the
\* close of _remove_stale_jobs, of toggle_job and of unregister_job.
InStoreUnit == {t \in Threads : pc[t] \in {"sc_unreg", "tg_unsched", "tg_add", "un_delete"}}

\* C26: at most one thread is inside a store unit, and a thread inside one
\* holds the store lock.
C26_OneStoreUnit ==
    /\ Cardinality(InStoreUnit) <= 1
    /\ \A t \in InStoreUnit : db_lock = t

\* C27: a Run row of a job and the row of a run that ended earlier did not
\* start within the same clock second, and so do not have the same log file
\* path.
C27_DistinctLogPaths ==
    \A r, q \in runs :
        (r.id < q.id /\ r.job_id = q.job_id /\ r.status # "running")
        => /\ r.started_at \div TicksPerSecond # q.started_at \div TicksPerSecond
           /\ r.log_path # q.log_path

\* C28: while no stage and no promotion is in progress, a complete staged
\* bundle of a task is in the staging area only if the task is in the
\* pending set.
C28_StagedIsPending ==
    (\A t \in Threads : pc[t] \notin StagePcs \cup PendPcs)
    => \A j \in DOMAIN staging :
          CompleteBundle(staging[j]) => j \in pending_updates

\* --- scans beside the updater: uploads and promotion polls (each ending in
\* its own scan) on the main thread, the periodic scan on another
NextRescan ==
    \/ \E b \in Bundles : StageBegin(MainThread, <<".", "b">>, b)
    \/ StageStep(MainThread)
    \/ PendBegin(MainThread)
    \/ PendStep(MainThread)
    \/ ScanStep(MainThread)
    \/ ScanBegin("t2")
    \/ ScanStep("t2")

SpecRescan == Init /\ [][NextRescan]_vars

\* C29: a step of a scan that deletes a Job row, or removes a trigger
\* registration as stale, does so only for a job whose manifest is not on
\* disk at that moment.
C29_DeletesOnlyAbsent ==
    [][\A t \in Threads : StaleUnregister(t) =>
          \A j \in Tasks :
              (\/ j \in DOMAIN jobs /\ j \notin DOMAIN jobs'
               \/ sched[j] # <<>> /\ sched'[j] = <<>>)
              => ManifestOf(j) = NULL
      ]_vars

====
